---- MODULE Spec2Model ----
(***************************************************************************)
(* cc/core/template_util.h: the class templates OccursInList and           *)
(* HasDuplicates of crypto::tink::internal.                                *)
(*                                                                         *)
(* A type token is a number of Types; two tokens are the same type exactly *)
(* when they are the same number (std::is_same).  A parameter pack or the  *)
(* argument list of a std::tuple is a sequence of tokens.                  *)
(*                                                                         *)
(* The module holds the two templates twice: as operators giving the       *)
(* ::value of a specialization, and as a step machine that follows the     *)
(* chain of specializations the compiler instantiates to obtain ::value,   *)
(* one specialization per step, for each of a set of evaluations (the      *)
(* places that name ::value).                                              *)
(***************************************************************************)
EXTENDS Integers, Sequences, FiniteSets

\* Number of distinct type tokens.
NumTypes == 3
\* Longest type list of a single evaluation.
MaxLen == 3
\* Longest type list when two evaluations run side by side.
MaxParLen == 2
\* How many times one evaluation is repeated.
MaxRuns == 2

Types == 1..NumTypes

ListsUpTo(n) == UNION {[1..k -> Types] : k \in 0..n}

Reverse(L) == [i \in 1..Len(L) |-> L[Len(L) + 1 - i]]

\* L with the token t put in after position p (p = 0: in front).
Insert(L, p, t) == SubSeq(L, 1, p) \o <<t>> \o SubSeq(L, p + 1, Len(L))

----------------------------------------------------------------------------
(* The ::value of the specializations.                                     *)

RECURSIVE OccursInList(_, _)
\* A mutation: only the first element of the tuple is compared.
OccursInListFirstOnly(TestType, Tuple) ==
    IF Tuple = <<>> THEN FALSE ELSE TestType = Head(Tuple)

\* OccursInList<TestType, std::tuple<...>>::value
OccursInList(TestType, Tuple) ==
    IF Tuple = <<>>
    THEN FALSE
    ELSE \/ TestType = Head(Tuple)
         \/ OccursInList(TestType, Tail(Tuple))

RECURSIVE HasDuplicates(_)
\* HasDuplicates<Args...>::value
HasDuplicates(Args) ==
    IF Args = <<>>
    THEN FALSE
    ELSE \/ OccursInList(Head(Args), Tail(Args))
         \/ HasDuplicates(Tail(Args))

----------------------------------------------------------------------------
(* The instantiation of the specializations, step by step.                 *)

VARIABLES
    query,      \* per evaluation: the specialization whose ::value is named
    pc,         \* per evaluation: the template being instantiated, or "done"
    test,       \* TestType of the OccursInList being instantiated (0: none)
    list,       \* argument list of the specialization being instantiated
    rest,       \* List... of the enclosing HasDuplicates<First, List...>
    value,      \* ::value of the last completed specialization
    levels,     \* instantiations of HasDuplicates<First, List...> so far
    comps,      \* std::is_same comparisons so far
    levelComps, \* std::is_same comparisons of the current level
    history     \* the values the earlier evaluations of the query yielded

vars == <<query, pc, test, list, rest, value, levels, comps, levelComps, history>>

HasDuplicatesQueries(n) ==
    {[tmpl |-> "HasDuplicates", TestType |-> 0, Args |-> L] : L \in ListsUpTo(n)}

OccursInListQueries(n) ==
    {[tmpl |-> "OccursInList", TestType |-> T, Args |-> L] :
        T \in Types, L \in ListsUpTo(n)}

\* Naming ::value of the query starts the instantiation of its specialization.
Begin(qs) ==
    /\ query = qs
    /\ pc = [e \in DOMAIN qs |-> qs[e].tmpl]
    /\ test = [e \in DOMAIN qs |-> qs[e].TestType]
    /\ list = [e \in DOMAIN qs |-> qs[e].Args]
    /\ rest = [e \in DOMAIN qs |-> <<>>]
    /\ value = [e \in DOMAIN qs |-> FALSE]
    /\ levels = [e \in DOMAIN qs |-> 0]
    /\ comps = [e \in DOMAIN qs |-> 0]
    /\ levelComps = [e \in DOMAIN qs |-> 0]
    /\ history = [e \in DOMAIN qs |-> <<>>]

Init ==
    \E q \in HasDuplicatesQueries(MaxLen) \cup OccursInListQueries(MaxLen) :
        Begin([e \in {1} |-> q])

InitPar ==
    \E q1, q2 \in HasDuplicatesQueries(MaxParLen) :
        /\ q1 # q2
        /\ Begin([e \in {1, 2} |-> IF e = 1 THEN q1 ELSE q2])

\* Where a completed OccursInList hands its value: to the disjunction of the
\* enclosing HasDuplicates<First, List...>, or to the place that named it.
OccursInListUser(e) ==
    IF query[e].tmpl = "HasDuplicates" THEN "disjunction" ELSE "done"

\* A mutation: no specialization matches the empty tuple; the class stays
\* incomplete and naming ::value is an error.
OccursInListEmptyMissing(e) ==
    /\ pc[e] = "OccursInList"
    /\ list[e] = <<>>
    /\ pc' = [pc EXCEPT ![e] = "error"]
    /\ UNCHANGED <<query, test, list, rest, value, levels, comps, levelComps, history>>

\* A mutation: the empty tuple yields true.
OccursInListEmptyTrue(e) ==
    /\ pc[e] = "OccursInList"
    /\ list[e] = <<>>
    /\ value' = [value EXCEPT ![e] = TRUE]
    /\ pc' = [pc EXCEPT ![e] = OccursInListUser(e)]
    /\ UNCHANGED <<query, test, list, rest, levels, comps, levelComps, history>>

\* OccursInList<TestType, std::tuple<>> : std::false_type
OccursInListEmpty(e) ==
    /\ pc[e] = "OccursInList"
    /\ list[e] = <<>>
    /\ value' = [value EXCEPT ![e] = FALSE]
    /\ pc' = [pc EXCEPT ![e] = OccursInListUser(e)]
    /\ UNCHANGED <<query, test, list, rest, levels, comps, levelComps, history>>

\* A mutation: a first element that differs from TestType ends the search.
OccursInListNonEmptyNoRest(e) ==
    /\ pc[e] = "OccursInList"
    /\ list[e] # <<>>
    /\ comps' = [comps EXCEPT ![e] = @ + 1]
    /\ levelComps' = [levelComps EXCEPT ![e] = @ + 1]
    /\ value' = [value EXCEPT ![e] = (test[e] = Head(list[e]))]
    /\ pc' = [pc EXCEPT ![e] = OccursInListUser(e)]
    /\ UNCHANGED <<query, test, list, rest, levels, history>>

\* A mutation: the recursion keeps First in the tuple.
OccursInListNonEmptyKeepFirst(e) ==
    /\ pc[e] = "OccursInList"
    /\ list[e] # <<>>
    /\ comps' = [comps EXCEPT ![e] = @ + 1]
    /\ levelComps' = [levelComps EXCEPT ![e] = @ + 1]
    /\ IF test[e] = Head(list[e])
       THEN /\ value' = [value EXCEPT ![e] = TRUE]
            /\ pc' = [pc EXCEPT ![e] = OccursInListUser(e)]
            /\ UNCHANGED list
       ELSE /\ UNCHANGED <<list, value, pc>>
    /\ UNCHANGED <<query, test, rest, levels, history>>

\* OccursInList<TestType, std::tuple<First, List...>> :
\*   absl::disjunction<std::is_same<TestType, First>,
\*                     OccursInList<TestType, std::tuple<List...>>>
\* The disjunction takes the first alternative whose ::value is true and
\* instantiates the second one only when the first is false.
OccursInListNonEmpty(e) ==
    /\ pc[e] = "OccursInList"
    /\ list[e] # <<>>
    /\ comps' = [comps EXCEPT ![e] = @ + 1]
    /\ levelComps' = [levelComps EXCEPT ![e] = @ + 1]
    /\ IF test[e] = Head(list[e])
       THEN /\ value' = [value EXCEPT ![e] = TRUE]
            /\ pc' = [pc EXCEPT ![e] = OccursInListUser(e)]
            /\ UNCHANGED list
       ELSE /\ list' = [list EXCEPT ![e] = Tail(@)]
            /\ UNCHANGED <<value, pc>>
    /\ UNCHANGED <<query, test, rest, levels, history>>

\* A mutation: the empty list yields true.
HasDuplicatesEmptyTrue(e) ==
    /\ pc[e] = "HasDuplicates"
    /\ list[e] = <<>>
    /\ value' = [value EXCEPT ![e] = TRUE]
    /\ pc' = [pc EXCEPT ![e] = "done"]
    /\ UNCHANGED <<query, test, list, rest, levels, comps, levelComps, history>>

\* HasDuplicates<> : std::false_type
HasDuplicatesEmpty(e) ==
    /\ pc[e] = "HasDuplicates"
    /\ list[e] = <<>>
    /\ value' = [value EXCEPT ![e] = FALSE]
    /\ pc' = [pc EXCEPT ![e] = "done"]
    /\ UNCHANGED <<query, test, list, rest, levels, comps, levelComps, history>>

\* A mutation: the step writes the state of every evaluation, not only its own.
HasDuplicatesNonEmptyShared(e) ==
    /\ pc[e] = "HasDuplicates"
    /\ list[e] # <<>>
    /\ levels' = [levels EXCEPT ![e] = @ + 1]
    /\ levelComps' = [levelComps EXCEPT ![e] = 0]
    /\ test' = [x \in DOMAIN test |-> Head(list[e])]
    /\ rest' = [x \in DOMAIN rest |-> Tail(list[e])]
    /\ list' = [list EXCEPT ![e] = Tail(@)]
    /\ pc' = [pc EXCEPT ![e] = "OccursInList"]
    /\ UNCHANGED <<query, value, comps, history>>

\* HasDuplicates<First, List...> :
\*   absl::disjunction<OccursInList<First, std::tuple<List...>>,
\*                     HasDuplicates<List...>>
\* First alternative: OccursInList<First, std::tuple<List...>> is instantiated.
HasDuplicatesNonEmpty(e) ==
    /\ pc[e] = "HasDuplicates"
    /\ list[e] # <<>>
    /\ levels' = [levels EXCEPT ![e] = @ + 1]
    /\ levelComps' = [levelComps EXCEPT ![e] = 0]
    /\ test' = [test EXCEPT ![e] = Head(list[e])]
    /\ rest' = [rest EXCEPT ![e] = Tail(list[e])]
    /\ list' = [list EXCEPT ![e] = Tail(@)]
    /\ pc' = [pc EXCEPT ![e] = "OccursInList"]
    /\ UNCHANGED <<query, value, comps, history>>

\* A mutation: the second alternative is dropped; the value of the first
\* alternative is the value of the whole.
HasDuplicatesDisjunctionFirstOnly(e) ==
    /\ pc[e] = "disjunction"
    /\ pc' = [pc EXCEPT ![e] = "done"]
    /\ UNCHANGED <<query, test, list, rest, value, levels, comps, levelComps, history>>

\* A mutation: the alternatives are combined by conjunction.
HasDuplicatesConjunction(e) ==
    /\ pc[e] = "disjunction"
    /\ IF ~value[e]
       THEN /\ pc' = [pc EXCEPT ![e] = "done"]
            /\ UNCHANGED list
       ELSE /\ pc' = [pc EXCEPT ![e] = "HasDuplicates"]
            /\ list' = [list EXCEPT ![e] = rest[e]]
    /\ UNCHANGED <<query, test, rest, value, levels, comps, levelComps, history>>

\* The absl::disjunction of HasDuplicates<First, List...>, once its first
\* alternative is complete: a true first alternative is the result, a false
\* one makes HasDuplicates<List...> the result.
HasDuplicatesDisjunction(e) ==
    /\ pc[e] = "disjunction"
    /\ IF value[e]
       THEN /\ pc' = [pc EXCEPT ![e] = "done"]
            /\ UNCHANGED list
       ELSE /\ pc' = [pc EXCEPT ![e] = "HasDuplicates"]
            /\ list' = [list EXCEPT ![e] = rest[e]]
    /\ UNCHANGED <<query, test, rest, value, levels, comps, levelComps, history>>

\* A mutation: the repeated evaluation goes on from the lists the earlier
\* one left behind.
ReevaluateStale(e) ==
    /\ pc[e] = "done"
    /\ Len(history[e]) < MaxRuns
    /\ history' = [history EXCEPT ![e] = Append(@, value[e])]
    /\ pc' = [pc EXCEPT ![e] = query[e].tmpl]
    /\ test' = [test EXCEPT ![e] = query[e].TestType]
    /\ value' = [value EXCEPT ![e] = FALSE]
    /\ levels' = [levels EXCEPT ![e] = 0]
    /\ comps' = [comps EXCEPT ![e] = 0]
    /\ levelComps' = [levelComps EXCEPT ![e] = 0]
    /\ UNCHANGED <<query, list, rest>>

\* ::value of the same specialization is named once more.
Reevaluate(e) ==
    /\ pc[e] = "done"
    /\ Len(history[e]) < MaxRuns
    /\ history' = [history EXCEPT ![e] = Append(@, value[e])]
    /\ pc' = [pc EXCEPT ![e] = query[e].tmpl]
    /\ test' = [test EXCEPT ![e] = query[e].TestType]
    /\ list' = [list EXCEPT ![e] = query[e].Args]
    /\ rest' = [rest EXCEPT ![e] = <<>>]
    /\ value' = [value EXCEPT ![e] = FALSE]
    /\ levels' = [levels EXCEPT ![e] = 0]
    /\ comps' = [comps EXCEPT ![e] = 0]
    /\ levelComps' = [levelComps EXCEPT ![e] = 0]
    /\ UNCHANGED query

\* One step of the instantiation of evaluation e.
Step(e) ==
    /\ e \in DOMAIN pc
    /\ \/ OccursInListEmpty(e)
       \/ OccursInListNonEmpty(e)
       \/ HasDuplicatesEmpty(e)
       \/ HasDuplicatesNonEmpty(e)
       \/ HasDuplicatesDisjunction(e)

Next ==
    \/ \E e \in DOMAIN pc : OccursInListEmpty(e)
    \/ \E e \in DOMAIN pc : OccursInListNonEmpty(e)
    \/ \E e \in DOMAIN pc : HasDuplicatesEmpty(e)
    \/ \E e \in DOMAIN pc : HasDuplicatesNonEmpty(e)
    \/ \E e \in DOMAIN pc : HasDuplicatesDisjunction(e)
    \/ \E e \in DOMAIN pc : Reevaluate(e)

\* One evaluation of HasDuplicates or of OccursInList.
Spec == Init /\ [][Next]_vars

\* The same; the compiler does not stop in the middle of an instantiation.
FairSpec == Init /\ [][Next]_vars /\ WF_vars(Step(1))

\* The steps of the evaluations, interleaved in every order.
NextPar ==
    \/ \E e \in DOMAIN pc : OccursInListEmpty(e)
    \/ \E e \in DOMAIN pc : OccursInListNonEmpty(e)
    \/ \E e \in DOMAIN pc : HasDuplicatesEmpty(e)
    \/ \E e \in DOMAIN pc : HasDuplicatesNonEmpty(e)
    \/ \E e \in DOMAIN pc : HasDuplicatesDisjunction(e)

\* Two evaluations of HasDuplicates on different lists, side by side.
SpecPar == InitPar /\ [][NextPar]_vars

----------------------------------------------------------------------------
Done(e) == pc[e] = "done"

DoneHasDuplicates(e) == Done(e) /\ query[e].tmpl = "HasDuplicates"

DoneOccursInList(e) == Done(e) /\ query[e].tmpl = "OccursInList"

TypeOK ==
    /\ \A e \in DOMAIN pc :
        /\ pc[e] \in {"HasDuplicates", "OccursInList", "disjunction", "done"}
        /\ value[e] \in BOOLEAN
        /\ test[e] \in Types \cup {0}
        /\ list[e] \in ListsUpTo(MaxLen)
        /\ rest[e] \in ListsUpTo(MaxLen)
        /\ levels[e] \in Nat /\ comps[e] \in Nat /\ levelComps[e] \in Nat
        /\ Len(history[e]) <= MaxRuns

\* The step machine yields the ::value the operators give.
MachineAgrees ==
    \A e \in DOMAIN pc :
        /\ DoneHasDuplicates(e) => value[e] = HasDuplicates(query[e].Args)
        /\ DoneOccursInList(e) =>
              value[e] = OccursInList(query[e].TestType, query[e].Args)

----------------------------------------------------------------------------
(* The claims.                                                             *)

\* Two different positions of L hold the same type token.
RepeatedPair(L) == \E i, j \in 1..Len(L) : i # j /\ L[i] = L[j]

\* C1: HasDuplicates<Args...>::value is true if and only if two different
\* positions of Args hold the same type token.
C1_HasDuplicatesIffRepeatedPair ==
    \A e \in DOMAIN pc :
        DoneHasDuplicates(e) => (value[e] <=> RepeatedPair(query[e].Args))

C1_Witness ==
    /\ DoneHasDuplicates(1)
    /\ query[1].Args = <<1, 2, 1>>
    /\ value[1] = TRUE

\* C2: OccursInList<T, std::tuple<L...>>::value is true if and only if T is
\* the element at some position of L; false for the empty list, true for [T].
C2_OccursInListIffMember ==
    \A e \in DOMAIN pc :
        DoneOccursInList(e) =>
            /\ value[e] <=> (\E i \in 1..Len(query[e].Args) :
                                query[e].Args[i] = query[e].TestType)
            /\ query[e].Args = <<>> => value[e] = FALSE
            /\ query[e].Args = <<query[e].TestType>> => value[e] = TRUE

C2_Witness ==
    /\ DoneOccursInList(1)
    /\ query[1].TestType = 1
    /\ query[1].Args = <<2, 2, 1>>
    /\ value[1] = TRUE

\* C3: HasDuplicates is false for the empty list, for every one-element list
\* and for every list of pairwise distinct elements.
C3_DistinctHasNoDuplicates ==
    \A e \in DOMAIN pc :
        /\ DoneHasDuplicates(e)
        /\ \/ Len(query[e].Args) <= 1
           \/ Cardinality({query[e].Args[i] : i \in 1..Len(query[e].Args)})
                 = Len(query[e].Args)
        => value[e] = FALSE

C3_Witness ==
    /\ DoneHasDuplicates(1)
    /\ query[1].Args = <<1, 2, 3>>
    /\ value[1] = FALSE
    /\ levels[1] = 3

\* C4: HasDuplicates of a list equals HasDuplicates of the reversed list.
C4_ReverseInvariant ==
    \A e \in DOMAIN pc :
        DoneHasDuplicates(e) =>
            value[e] = HasDuplicates(Reverse(query[e].Args))

C4_Witness ==
    /\ DoneHasDuplicates(1)
    /\ query[1].Args = <<1, 2, 2>>
    /\ Reverse(query[1].Args) = <<2, 2, 1>>
    /\ value[1] = TRUE

Running == \E e \in DOMAIN pc : ~Done(e)

AllDone == \A e \in DOMAIN pc : Done(e) /\ value[e] \in BOOLEAN

\* C5: every evaluation of HasDuplicates and of OccursInList, the empty list
\* included, goes on until it has yielded a boolean; none gets stuck or ends
\* in an error.
C5_AlwaysTerminates == Running ~> AllDone

C5_Witness ==
    /\ Done(1)
    /\ Len(query[1].Args) = MaxLen
    /\ Len(history[1]) = MaxRuns
    /\ comps[1] = (MaxLen * (MaxLen - 1)) \div 2

\* C6: HasDuplicates on an N-element list goes through at most N levels, a
\* level makes at most N comparisons, and all levels together at most N*N.
C6_QuadraticBound ==
    \A e \in DOMAIN pc :
        query[e].tmpl = "HasDuplicates" =>
            /\ levels[e] <= Len(query[e].Args)
            /\ levelComps[e] <= Len(query[e].Args)
            /\ comps[e] <= Len(query[e].Args) * Len(query[e].Args)

C6_Witness ==
    /\ query[1].tmpl = "HasDuplicates"
    /\ Len(query[1].Args) = 3
    /\ levels[1] = 1
    /\ levelComps[1] = 2
    /\ pc[1] = "disjunction"

C8_NoInterference ==
    \A e \in DOMAIN pc :
        Done(e) => value[e] = HasDuplicates(query[e].Args)

C8_Witness ==
    /\ DOMAIN pc = {1, 2}
    /\ Done(1) /\ Done(2)
    /\ query[1].Args = <<1, 1>>
    /\ query[2].Args = <<1, 2>>
    /\ value[1] = TRUE
    /\ value[2] = FALSE

\* C9: for a list with head H and remainder R, HasDuplicates is true when H
\* occurs in R and is HasDuplicates of R otherwise.
C9_HeadOrRemainder ==
    \A e \in DOMAIN pc :
        DoneHasDuplicates(e) /\ query[e].Args # <<>> =>
            /\ value[e] = (\/ OccursInList(Head(query[e].Args), Tail(query[e].Args))
                           \/ HasDuplicates(Tail(query[e].Args)))
            /\ OccursInList(Head(query[e].Args), Tail(query[e].Args)) => value[e]
            /\ ~OccursInList(Head(query[e].Args), Tail(query[e].Args)) =>
                  value[e] = HasDuplicates(Tail(query[e].Args))

C9_Witness ==
    /\ DoneHasDuplicates(1)
    /\ query[1].Args = <<1, 3, 3>>
    /\ value[1] = TRUE
    /\ levels[1] = 2

\* C10: when HasDuplicates of a list is true, it is true of every list got by
\* putting one more type token in at any position.
C10_MonotoneUnderInsertion ==
    \A e \in DOMAIN pc :
        DoneHasDuplicates(e) /\ value[e] =>
            \A t \in Types : \A p \in 0..Len(query[e].Args) :
                HasDuplicates(Insert(query[e].Args, p, t))

C10_Witness ==
    /\ DoneHasDuplicates(1)
    /\ query[1].Args = <<1, 1>>
    /\ value[1] = TRUE
    /\ HasDuplicates(Insert(query[1].Args, 1, 2))

====
